---- MODULE Spec2Model ----
(***************************************************************************)
(* Model of package fn (src/fn.go): generic slice helpers.                 *)
(*                                                                         *)
(* A Go slice is a header (array, offset, length, capacity) over a backing *)
(* array.  The model keeps the backing arrays in `heap` and slice headers  *)
(* as records, so that "in place", "view", "capacity" and "allocates" are  *)
(* observable.  A caller owns one slice `s`, calls one function of the     *)
(* package on it, may then write to or append to a returned slice, and     *)
(* goes on with the next call.                                             *)
(***************************************************************************)
EXTENDS Integers, Sequences, FiniteSets

\* ---------------------------------------------------------------- bounds
MaxCap == 3          \* capacity of the caller's backing array is 0..MaxCap
MaxVal == 2          \* element values are 0..MaxVal
MaxN   == 4          \* size arguments of Limit and Batch are -1..MaxN

Zero   == 0          \* the zero value of the element type (var zero T)
Values == 0..MaxVal
NumVals == MaxVal + 1
Sizes  == (-1)..MaxN
Preds  == SUBSET Values          \* a predicate is the set of values it accepts
Shifts == Values                 \* a transform is x |-> (x + k) % NumVals

VARIABLES
    heap,    \* sequence of backing arrays; heap[1] is the caller's array
    s,       \* the caller's slice header
    pc,      \* "ready" | "shuffle" | "returned" | "touched"
    op,      \* name of the function called last
    args,    \* arguments of that call
    res,     \* what the call returned
    i,       \* Shuffle's loop variable
    pre,     \* the heap as it was when the call was made
    post,    \* the heap as it was when the call returned (set by a touch)
    touch    \* what the caller did to a returned slice

vars == <<heap, s, pc, op, args, res, i, pre, post, touch>>

\* ------------------------------------------------------- slices and heap
Min(a, b) == IF a < b THEN a ELSE b
Max(a, b) == IF a > b THEN a ELSE b

NilSlice == [arr |-> 0, off |-> 0, len |-> 0, cap |-> 0]

Zeros(c) == [k \in 1..c |-> Zero]

\* the elements a slice header shows, as a sequence
Elems(h, sl) == [k \in 1..sl.len |-> h[sl.arr][sl.off + k]]

\* sl[k] (0-based)
At(h, sl, k) == h[sl.arr][sl.off + k + 1]

\* sl[k] = v (0-based)
Store(h, sl, k, v) == [h EXCEPT ![sl.arr][sl.off + k + 1] = v]

\* sl[lo:hi:max] is legal iff 0 <= lo <= hi <= max <= cap(sl)
SliceOK(sl, lo, hi, max) == 0 <= lo /\ lo <= hi /\ hi <= max /\ max <= sl.cap

\* sl[lo:hi:max]
SliceExpr(sl, lo, hi, max) ==
    [arr |-> sl.arr, off |-> sl.off + lo, len |-> hi - lo, cap |-> max - lo]

\* make([]T, n, c)
Make(h, n, c) ==
    [heap |-> Append(h, Zeros(c)),
     out  |-> [arr |-> Len(h) + 1, off |-> 0, len |-> n, cap |-> c]]

\* append(sl, v): in place when there is room, else into a new, larger array
\* (the runtime about doubles small capacities; no property depends on it)
GoAppend(h, sl, v) ==
    IF sl.len < sl.cap
    THEN LET grown == [sl EXCEPT !.len = @ + 1]
         IN  [heap |-> Store(h, grown, sl.len, v), out |-> grown]
    ELSE LET newcap == IF sl.cap = 0 THEN 1 ELSE 2 * sl.cap
             data   == [k \in 1..newcap |->
                          IF k <= sl.len THEN h[sl.arr][sl.off + k]
                          ELSE IF k = sl.len + 1 THEN v ELSE Zero]
         IN  [heap |-> Append(h, data),
              out  |-> [arr |-> Len(h) + 1, off |-> 0,
                        len |-> sl.len + 1, cap |-> newcap]]

\* a[k] = zero for k in from..to-1
RECURSIVE ClearRange(_, _, _, _)
ClearRange(h, a, from, to) ==
    IF from >= to THEN h
    ELSE ClearRange(Store(h, a, from, Zero), a, from + 1, to)

\* results of a call
Returned(h, slices)  == [heap |-> h, panic |-> FALSE, nil |-> FALSE, slices |-> slices]
ReturnedNil(h)       == [heap |-> h, panic |-> FALSE, nil |-> TRUE,  slices |-> <<>>]
Panicked(h)          == [heap |-> h, panic |-> TRUE,  nil |-> FALSE, slices |-> <<>>]

\* ------------------------------------------------------------------ Limit
\* return slice[:min(len(slice), n)]
Limit(h, slice, n) ==
    LET hi == Min(slice.len, n)
    IN  IF SliceOK(slice, 0, hi, slice.cap)
        THEN Returned(h, <<SliceExpr(slice, 0, hi, slice.cap)>>)
        ELSE Panicked(h)

\* -------------------------------------------------------------------- Map
ApplyShift(k, x) == (x + k) % NumVals

RECURSIVE MapLoop(_, _, _, _, _)
MapLoop(h, slice, k, result, idx) ==
    IF idx >= slice.len THEN h
    ELSE MapLoop(Store(h, result, idx, ApplyShift(k, At(h, slice, idx))),
                 slice, k, result, idx + 1)

Map_InPlace(h, slice, k) ==
    Returned(MapLoop(h, slice, k, slice, 0), <<slice>>)

Map(h, slice, k) ==
    LET m == Make(h, slice.len, slice.len)
    IN  Returned(MapLoop(m.heap, slice, k, m.out, 0), <<m.out>>)

\* ----------------------------------------------------------------- Filter
\* the loop shared by Filter and FilterInPlace: append to b each x that passes
RECURSIVE FilterLoop(_, _, _, _, _)
FilterLoop(h, a, P, b, idx) ==
    IF idx >= a.len THEN [heap |-> h, out |-> b]
    ELSE LET x == At(h, a, idx)
         IN  IF x \in P
             THEN LET r == GoAppend(h, b, x)
                  IN  FilterLoop(r.heap, a, P, r.out, idx + 1)
             ELSE FilterLoop(h, a, P, b, idx + 1)

Filter(h, slice, P) ==
    LET m == Make(h, 0, slice.len)
        r == FilterLoop(m.heap, slice, P, m.out, 0)
    IN  Returned(r.heap, <<r.out>>)

FilterInPlace_NoClear(h, a, P) ==
    LET r == FilterLoop(h, a, P, SliceExpr(a, 0, 0, a.cap), 0)
    IN  Returned(r.heap, <<r.out>>)

FilterInPlace(h, a, P) ==
    LET r == FilterLoop(h, a, P, SliceExpr(a, 0, 0, a.cap), 0)
    IN  Returned(ClearRange(r.heap, a, r.out.len, a.len), <<r.out>>)

\* ----------------------------------------------------------------- Unique
RECURSIVE UniqueLoop(_, _, _, _, _)
UniqueLoop(h, slice, idx, n, seen) ==
    IF idx >= slice.len THEN [heap |-> h, n |-> n]
    ELSE LET v == At(h, slice, idx)
         IN  IF v \in seen
             THEN UniqueLoop(h, slice, idx + 1, n, seen)
             ELSE UniqueLoop(Store(h, slice, n, v), slice, idx + 1, n + 1,
                             seen \cup {v})

\* a variant that only compares with the element kept last
RECURSIVE UniqueAdjacentLoop(_, _, _, _)
UniqueAdjacentLoop(h, slice, idx, n) ==
    IF idx >= slice.len THEN [heap |-> h, n |-> n]
    ELSE LET v == At(h, slice, idx)
         IN  IF n > 0 /\ At(h, slice, n - 1) = v
             THEN UniqueAdjacentLoop(h, slice, idx + 1, n)
             ELSE UniqueAdjacentLoop(Store(h, slice, n, v), slice, idx + 1, n + 1)

Unique_Adjacent(h, slice) ==
    IF slice.len <= 1 THEN Returned(h, <<slice>>)
    ELSE LET r == UniqueAdjacentLoop(h, slice, 0, 0)
         IN  Returned(ClearRange(r.heap, slice, r.n, slice.len),
                      <<SliceExpr(slice, 0, r.n, slice.cap)>>)

Unique(h, slice) ==
    IF slice.len <= 1 THEN Returned(h, <<slice>>)
    ELSE LET r == UniqueLoop(h, slice, 0, 0, {})
         IN  Returned(ClearRange(r.heap, slice, r.n, slice.len),
                      <<SliceExpr(slice, 0, r.n, slice.cap)>>)

\* ---------------------------------------------------------------- Reverse
\* a[left], a[right] = a[right], a[left]
Swap(h, a, left, right) ==
    Store(Store(h, a, left, At(h, a, right)), a, right, At(h, a, left))

RECURSIVE ReverseLoop(_, _, _, _)
ReverseLoop(h, a, left, right) ==
    IF left < right
    THEN ReverseLoop(Swap(h, a, left, right), a, left + 1, right - 1)
    ELSE h

\* a variant whose right pointer starts one too far to the left
Reverse_ShortRight(h, a) == Returned(ReverseLoop(h, a, 0, a.len - 2), <<>>)

Reverse(h, a) == Returned(ReverseLoop(h, a, 0, a.len - 1), <<>>)

\* ---------------------------------------------------------------- Shuffle
\* one iteration of the loop body with j as rand.Intn(i + 1) returned it
ShuffleBody_Overwrite(h, a, idx, j) == Store(h, a, idx, At(h, a, j))

ShuffleBody(h, a, idx, j) == Swap(h, a, idx, j)

\* ------------------------------------------------------------------ Batch
\* slice[0:batchSize:batchSize]
BatchChunk_FullCap(slice, batchSize) == SliceExpr(slice, 0, batchSize, slice.cap)

BatchChunk(slice, batchSize) == SliceExpr(slice, 0, batchSize, batchSize)

\* for batchSize < len(slice) { slice, batches = slice[batchSize:], append(...) }
RECURSIVE BatchLoop(_, _, _)
BatchLoop(slice, batchSize, batches) ==
    IF batchSize < slice.len
    THEN BatchLoop(SliceExpr(slice, batchSize, slice.len, slice.cap), batchSize,
                   Append(batches, BatchChunk(slice, batchSize)))
    ELSE [slice |-> slice, batches |-> batches]

Batch_NoRemainder(h, slice, batchSize) ==
    IF batchSize <= 0 THEN ReturnedNil(h)
    ELSE LET r == BatchLoop(slice, batchSize, <<>>)
         IN  IF r.batches = <<>> THEN ReturnedNil(h) ELSE Returned(h, r.batches)

Batch(h, slice, batchSize) ==
    IF batchSize <= 0 THEN ReturnedNil(h)
    ELSE LET r == BatchLoop(slice, batchSize, <<>>)
             batches == IF r.slice.len > 0 THEN Append(r.batches, r.slice)
                        ELSE r.batches
         IN  IF batches = <<>> THEN ReturnedNil(h) ELSE Returned(h, batches)

\* ----------------------------------------------------------------- Delete
\* slices.IndexFunc: index of the first element that del accepts, or -1
RECURSIVE IndexFunc(_, _, _, _)
IndexFunc(h, sl, del, idx) ==
    IF idx >= sl.len THEN -1
    ELSE IF At(h, sl, idx) \in del THEN idx
    ELSE IndexFunc(h, sl, del, idx + 1)

\* the compaction loop of slices.DeleteFunc, j from first+1 to len(s)-1
RECURSIVE DeleteLoop(_, _, _, _, _)
DeleteLoop(h, sl, del, idx, j) ==
    IF j >= sl.len THEN [heap |-> h, n |-> idx]
    ELSE LET v == At(h, sl, j)
         IN  IF v \notin del
             THEN DeleteLoop(Store(h, sl, idx, v), sl, del, idx + 1, j + 1)
             ELSE DeleteLoop(h, sl, del, idx, j + 1)

\* slices.DeleteFunc.  Since Go 1.22 it clears the tail it leaves behind,
\* before that it did not: clearTail says which standard library is linked.
DeleteFunc(h, sl, del, clearTail) ==
    LET first == IndexFunc(h, sl, del, 0)
    IN  IF first = -1 THEN Returned(h, <<sl>>)
        ELSE LET r == DeleteLoop(h, sl, del, first, first + 1)
                 h2 == IF clearTail THEN ClearRange(r.heap, sl, r.n, sl.len)
                       ELSE r.heap
             IN  Returned(h2, <<SliceExpr(sl, 0, r.n, sl.cap)>>)

\* a variant that closes the gap of the first occurrence only
Delete_FirstOnly(h, slice, value, clearTail) ==
    LET first == IndexFunc(h, slice, {value}, 0)
    IN  IF first = -1 THEN Returned(h, <<slice>>)
        ELSE LET r == DeleteLoop(h, slice, {}, first, first + 1)
             IN  Returned(r.heap, <<SliceExpr(slice, 0, r.n, slice.cap)>>)

Delete(h, slice, value, clearTail) == DeleteFunc(h, slice, {value}, clearTail)

\* ------------------------------------------------------------- the caller
NoArgs  == [n |-> 0, P |-> {}, k |-> 0, v |-> 0, clearTail |-> FALSE]
NoRes   == [panic |-> FALSE, nil |-> FALSE, slices |-> <<>>]
NoTouch == [kind |-> "none", k |-> 0, idx |-> 0, v |-> 0, old |-> NilSlice]

\* functions whose result the caller is meant to assign back to its slice
Reassigning == {"Limit", "FilterInPlace", "Unique", "Delete"}

\* the caller starts with a slice literal: full, len = cap (as the tests do);
\* slices shorter than their array come from assigning results back
Init ==
    \E c \in 0..MaxCap :
      \E data \in [1..c -> Values] :
        /\ heap = <<data>>
        /\ s = [arr |-> 1, off |-> 0, len |-> c, cap |-> c]
        /\ pc = "ready"
        /\ op = "none"
        /\ args = NoArgs
        /\ res = NoRes
        /\ i = 0
        /\ pre = <<>>
        /\ post = <<>>
        /\ touch = NoTouch

\* the caller calls `name` with arguments a; r is what the function did
Call(name, a, r) ==
    /\ pc = "ready"
    /\ pc' = "returned"
    /\ op' = name
    /\ args' = a
    /\ heap' = r.heap
    /\ res' = [panic |-> r.panic, nil |-> r.nil, slices |-> r.slices]
    /\ pre' = heap
    /\ UNCHANGED <<s, i, post, touch>>

CallLimit ==
    \E n \in Sizes : Call("Limit", [NoArgs EXCEPT !.n = n], Limit(heap, s, n))

CallMap ==
    \E k \in Shifts : Call("Map", [NoArgs EXCEPT !.k = k], Map(heap, s, k))

CallFilter ==
    \E P \in Preds : Call("Filter", [NoArgs EXCEPT !.P = P], Filter(heap, s, P))

CallFilterInPlace ==
    \E P \in Preds :
        Call("FilterInPlace", [NoArgs EXCEPT !.P = P], FilterInPlace(heap, s, P))

CallUnique == Call("Unique", NoArgs, Unique(heap, s))

CallReverse == Call("Reverse", NoArgs, Reverse(heap, s))

CallBatch ==
    \E n \in Sizes : Call("Batch", [NoArgs EXCEPT !.n = n], Batch(heap, s, n))

CallDelete ==
    \E v \in Values, ct \in BOOLEAN :
        Call("Delete", [NoArgs EXCEPT !.v = v, !.clearTail = ct],
             Delete(heap, s, v, ct))

\* Shuffle runs one loop iteration per step: for i := len(a) - 1; i > 0; i--
CallShuffle ==
    /\ pc = "ready"
    /\ pc' = "shuffle"
    /\ op' = "Shuffle"
    /\ i' = s.len - 1
    /\ pre' = heap
    /\ UNCHANGED <<heap, s, args, res, post, touch>>

ShuffleStep ==
    /\ pc = "shuffle"
    /\ i > 0
    /\ \E j \in 0..i : heap' = ShuffleBody(heap, s, i, j)
    /\ i' = i - 1
    /\ UNCHANGED <<s, pc, op, args, res, pre, post, touch>>

ShuffleReturn ==
    /\ pc = "shuffle"
    /\ ~(i > 0)
    /\ pc' = "returned"
    /\ i' = 0
    /\ UNCHANGED <<heap, s, op, args, res, pre, post, touch>>

\* the caller overwrites an element of a returned slice: r[idx] = v
WriteElem ==
    /\ pc = "returned"
    /\ \E k \in 1..Len(res.slices) :
         \E idx \in 0..(res.slices[k].len - 1), v \in Values :
           /\ heap' = Store(heap, res.slices[k], idx, v)
           /\ touch' = [kind |-> "write", k |-> k, idx |-> idx, v |-> v,
                        old |-> res.slices[k]]
    /\ pc' = "touched"
    /\ post' = heap
    /\ UNCHANGED <<s, op, args, res, i, pre>>

\* the caller appends to a returned slice: r = append(r, v)
AppendElem ==
    /\ pc = "returned"
    /\ \E k \in 1..Len(res.slices) :
         \E v \in Values :
           LET r == GoAppend(heap, res.slices[k], v)
           IN  /\ heap' = r.heap
               /\ res' = [res EXCEPT !.slices[k] = r.out]
               /\ touch' = [kind |-> "append", k |-> k, idx |-> res.slices[k].len,
                            v |-> v, old |-> res.slices[k]]
    /\ pc' = "touched"
    /\ post' = heap
    /\ UNCHANGED <<s, op, args, i, pre>>

\* the caller goes on: it keeps its slice, or assigns the result back to it
Continue ==
    /\ pc \in {"returned", "touched"}
    /\ ~res.panic
    /\ \/ s' = s
       \/ /\ op \in Reassigning
          /\ res.slices[1].arr = 1
          /\ s' = res.slices[1]
    /\ heap' = <<heap[1]>>
    /\ pc' = "ready"
    /\ op' = "none"
    /\ args' = NoArgs
    /\ res' = NoRes
    /\ i' = 0
    /\ pre' = <<>>
    /\ post' = <<>>
    /\ touch' = NoTouch

Next ==
    \/ CallLimit
    \/ CallMap
    \/ CallFilter
    \/ CallFilterInPlace
    \/ CallUnique
    \/ CallReverse
    \/ CallBatch
    \/ CallDelete
    \/ CallShuffle
    \/ ShuffleStep
    \/ ShuffleReturn
    \/ WriteElem
    \/ AppendElem
    \/ Continue

Spec == Init /\ [][Next]_vars

\* the loop of Shuffle is not suspended for ever
FairSpec == Spec /\ WF_vars(ShuffleStep) /\ WF_vars(ShuffleReturn)

TypeOK ==
    /\ pc \in {"ready", "shuffle", "returned", "touched"}
    /\ Len(heap) \in 1..3
    /\ s.arr = 1 /\ s.off = 0 /\ s.len <= s.cap /\ s.cap = Len(heap[1])

\* ------------------------------------------------------------ properties
\* what the caller sees of its slice before the call, and of the k-th result
Before == Elems(pre, s)
Result(k) == Elems(heap, res.slices[k])

Count(seq, v) == Cardinality({k \in DOMAIN seq : seq[k] = v})

Keep(seq, P) == SelectSeq(seq, LAMBDA x : x \in P)

CeilDiv(a, b) == (a + b - 1) \div b

FirstIndex(seq, v) ==
    CHOOSE k \in DOMAIN seq : seq[k] = v /\ \A m \in 1..(k - 1) : seq[m] # v

RECURSIVE ConcatChunks(_, _)
ConcatChunks(h, chunks) ==
    IF chunks = <<>> THEN <<>>
    ELSE Elems(h, Head(chunks)) \o ConcatChunks(h, Tail(chunks))

\* C1: for every s and every n, n <= 0 included, Limit(s, n) returns the first
\* min(max(n, 0), len(s)) elements of s in order; n <= 0 gives an empty result.
C1_LimitPrefix ==
    (pc = "returned" /\ op = "Limit") =>
        /\ ~res.panic
        /\ Len(res.slices) = 1
        /\ res.slices[1].len = Min(Max(args.n, 0), s.len)
        /\ Result(1) = SubSeq(Before, 1, Min(Max(args.n, 0), s.len))

\* C2: no call of the package panics, whatever the input: empty slices,
\* predicates that accept nothing, zero and negative sizes.
C2_NeverPanics == ~res.panic

\* C3: for size > 0 the chunks of Batch(s, size) concatenate to s, all but the
\* last have exactly size elements, the last has 1..size, there are
\* ceil(len(s)/size) of them; for size <= 0 Batch returns nil, no chunks.
C3_BatchChunks ==
    (pc = "returned" /\ op = "Batch") =>
        /\ ~res.panic
        /\ heap = pre
        /\ IF args.n > 0
           THEN LET m == Len(res.slices)
                IN  /\ ConcatChunks(heap, res.slices) = Before
                    /\ \A k \in 1..(m - 1) : res.slices[k].len = args.n
                    /\ m > 0 => res.slices[m].len \in 1..args.n
                    /\ m = CeilDiv(s.len, args.n)
           ELSE res.nil /\ res.slices = <<>>

C3_Witness ==
    /\ pc = "returned" /\ op = "Batch"
    /\ args.n = 2 /\ s.len = 3
    /\ Len(res.slices) = 2 /\ res.slices[2].len = 1

\* C4: FilterInPlace(s, pred) returns the element sequence Filter(s, pred)
\* returns, over the storage of s from its first position with the capacity
\* of s, and s[newlen .. oldlen-1] holds the zero value afterwards.
C4_FilterInPlace ==
    (pc = "returned" /\ op = "FilterInPlace") =>
        LET b == res.slices[1]
            f == Filter(pre, s, args.P)
        IN  /\ ~res.panic
            /\ Result(1) = Elems(f.heap, f.slices[1])
            /\ Result(1) = Keep(Before, args.P)
            /\ b.arr = s.arr /\ b.off = s.off /\ b.cap = s.cap
            /\ \A k \in b.len..(s.len - 1) : At(heap, s, k) = Zero

C4_Witness ==
    /\ pc = "returned" /\ op = "FilterInPlace"
    /\ res.slices[1].len > 0
    /\ res.slices[1].len < s.len
    /\ At(pre, s, s.len - 1) \in args.P
    /\ At(pre, s, s.len - 1) # Zero

\* C5: Unique(s) is a view over the storage of s holding each distinct value
\* of s once, in order of first occurrence, no longer than s; s[newlen ..
\* oldlen-1] is zeroed; a slice of length <= 1 is returned unchanged.
C5_Unique ==
    (pc = "returned" /\ op = "Unique") =>
        LET u == res.slices[1]
            r == Result(1)
        IN  /\ ~res.panic
            /\ u.arr = s.arr /\ u.off = s.off
            /\ {r[k] : k \in 1..u.len} = {Before[k] : k \in 1..s.len}
            /\ \A k, m \in 1..u.len : k # m => r[k] # r[m]
            /\ \A k, m \in 1..u.len :
                   k < m => FirstIndex(Before, r[k]) < FirstIndex(Before, r[m])
            /\ u.len <= s.len
            /\ \A k \in u.len..(s.len - 1) : At(heap, s, k) = Zero
            /\ s.len <= 1 => (u = s /\ heap = pre)

C5_Witness ==
    /\ pc = "returned" /\ op = "Unique"
    /\ s.len = 3
    /\ Before[1] = Before[3] /\ Before[1] # Before[2]
    /\ res.slices[1].len = 2

C7_Delete ==
    (pc = "returned" /\ op = "Delete") =>
        LET d == res.slices[1]
        IN  /\ ~res.panic
            /\ \A k \in 1..d.len : Result(1)[k] # args.v
            /\ Result(1) = Keep(Before, Values \ {args.v})
            /\ d.arr = s.arr /\ d.off = s.off

C7_Witness ==
    /\ pc = "returned" /\ op = "Delete"
    /\ Count(Before, args.v) >= 2
    /\ res.slices[1].len > 0

\* C8: whatever j is drawn in 0..i at each step, Shuffle keeps the length and
\* the count of every value of s, after every swap and at the end, and it
\* terminates.
ShuffleKeeps ==
    (op = "Shuffle" /\ pc \in {"shuffle", "returned"}) =>
        /\ Len(heap[1]) = Len(pre[1])
        /\ \A v \in Values : Count(Elems(heap, s), v) = Count(Before, v)
        /\ pc = "shuffle" => i \in (-1)..(s.len - 1)

C8_Shuffle == []ShuffleKeeps /\ ((pc = "shuffle") ~> (pc = "returned"))

C8_Witness ==
    /\ pc = "returned" /\ op = "Shuffle"
    /\ s.len = 3
    /\ Elems(heap, s) # Before

\* C9: after Reverse(s) the length is the same and s[k] is what s[n-1-k] was;
\* length <= 1 changes nothing, and reversing twice restores the order.
C9_Reverse ==
    (pc = "returned" /\ op = "Reverse") =>
        /\ ~res.panic
        /\ Len(heap[1]) = Len(pre[1])
        /\ \A k \in 0..(s.len - 1) : At(heap, s, k) = At(pre, s, s.len - 1 - k)
        /\ \A k \in (s.len + 1)..Len(heap[1]) : heap[1][k] = pre[1][k]
        /\ s.len <= 1 => heap = pre
        /\ Elems(Reverse(heap, s).heap, s) = Before

C9_Witness ==
    /\ pc = "returned" /\ op = "Reverse"
    /\ s.len = 3
    /\ Before[1] # Before[3]

\* C10: the chunks of Batch are views over the storage of s that cannot grow
\* into one another: appending to a chunk changes no element of s within its
\* length and no element of another chunk; overwriting an element of a chunk
\* changes exactly the corresponding element of s.
C10_BatchChunksIsolated ==
    /\ (pc = "returned" /\ op = "Batch") =>
           \A k \in 1..Len(res.slices) :
               /\ res.slices[k].arr = s.arr
               /\ k < Len(res.slices) => res.slices[k].cap = res.slices[k].len
    /\ (pc = "touched" /\ op = "Batch") =>
           LET c == touch.old
           IN  IF touch.kind = "append"
               THEN /\ Elems(heap, s) = Elems(post, s)
                    /\ \A m \in 1..Len(res.slices) :
                           m # touch.k => Result(m) = Elems(post, res.slices[m])
               ELSE /\ c.arr = s.arr
                    /\ c.off + touch.idx < s.off + s.len
                    /\ At(heap, s, c.off - s.off + touch.idx) = touch.v
                    /\ heap[1] = [post[1] EXCEPT ![c.off + touch.idx + 1] = touch.v]

C10_Witness ==
    /\ pc = "touched" /\ op = "Batch"
    /\ touch.kind = "append" /\ touch.k = 1
    /\ Len(res.slices) >= 2
    /\ touch.old.len < s.len
    /\ At(post, s, touch.old.len) # touch.v

====
